---- MODULE Spec2Model ----
(***************************************************************************)
(* A model of the gym environments (CartPole, BallPush, Walker) and of the *)
(* VerletParticle they are built on.                                       *)
(*                                                                         *)
(* float64 quantities are modelled in fixed point: an integer n stands for *)
(* the real n / ONE.  Products and quotients truncate toward zero.  The    *)
(* particle code (verlet.go, env_ballpush.go) and the cart-pole code       *)
(* (env_cartpole.go) use different resolutions, chosen so that one         *)
(* time step of the default settings is a whole number of units and every  *)
(* intermediate product stays inside TLC's 32 bit integers.                *)
(***************************************************************************)
EXTENDS Integers, Sequences, FiniteSets, TLC

VARIABLES
    env,      \* which environment the program constructed
    cart,     \* CartPoleEnv: BoxPosition, BoxVelocity, PoleRotation, ...
    push,     \* BallPushEnv: Agent, Ball, HasTouchedBall, HasCenteredBall
    particle, \* a stand-alone VerletParticle
    walker,   \* WalkerEnv: the motor speeds handed to the physics engine
    last,     \* the last call made on the environment and what it returned
    hist,     \* what has been observed of the current episode
    calls     \* how many Step / Reset / failing calls have been made

vars == <<env, cart, push, particle, walker, last, hist, calls>>

-----------------------------------------------------------------------------
(* Bounds of the exploration.                                              *)

MaxSteps == 3
MaxResets == 1
MaxParticleOps == 3
MaxDrive == 400

-----------------------------------------------------------------------------
(* Fixed-point arithmetic.                                                 *)

\* Resolution of the particle world: 1/3600 of a length unit, so that an
\* acceleration times the square of the default time step (1/60) is exact.
ONE == 60 * 60

\* Resolution of the cart-pole world: 1/7200.
CP == 60 * 120

Abs(a) == IF a < 0 THEN -a ELSE a

\* Operands are bound to their values once (CHOOSE over a singleton image)
\* before they are used: an operator argument is otherwise evaluated anew at
\* every occurrence.

\* a / b truncated toward zero, as a float division followed by a cut.
Div(a, b) ==
    CHOOSE q \in { IF d = 0 THEN 0
                   ELSE IF (n >= 0) = (d > 0) THEN Abs(n) \div Abs(d)
                   ELSE -(Abs(n) \div Abs(d)) : n \in {a}, d \in {b} } : TRUE

\* ax * an / ad for naturals, the product split so that it is never formed
\* in full.
MulDivNat(ax, an, ad) == (ax \div ad) * an + ((ax % ad) * an) \div ad

\* x * (num / den) for a scalar given as a ratio, truncated toward zero.
MulDiv(x, num, den) ==
    CHOOSE q \in { IF d = 0 THEN 0
                   ELSE IF ((a >= 0) = (n >= 0)) = (d > 0)
                        THEN MulDivNat(Abs(a), Abs(n), Abs(d))
                        ELSE -MulDivNat(Abs(a), Abs(n), Abs(d))
                   : a \in {x}, n \in {num}, d \in {den} } : TRUE

\* The largest r in lo .. hi with r * r <= n, by bisection.
RECURSIVE SqrtSearch(_, _, _)
SqrtSearch(n, lo, hi) ==
    CHOOSE r \in
        { IF b[2] >= b[3] THEN b[2]
          ELSE IF b[4] * b[4] <= b[1] THEN SqrtSearch(b[1], b[4], b[3])
          ELSE SqrtSearch(b[1], b[2], b[4] - 1)
          : b \in { <<m, l, h, (l + h + 1) \div 2>> : m \in {n}, l \in {lo}, h \in {hi} } }
        : TRUE

\* math.Sqrt / math.Hypot on integers: the floor of the square root.
ISqrt(n) == SqrtSearch(n, 0, 46340)

-----------------------------------------------------------------------------
(* pixel.Vec, in particle units.                                           *)

V(x, y) == [X |-> x, Y |-> y]
ZV == V(0, 0)

VAdd(u, v) == CHOOSE r \in { V(a.X + b.X, a.Y + b.Y) : a \in {u}, b \in {v} } : TRUE
VSub(u, v) == CHOOSE r \in { V(a.X - b.X, a.Y - b.Y) : a \in {u}, b \in {v} } : TRUE

\* u.Scaled(num/den)
VScaled(u, num, den) ==
    CHOOSE r \in { V(MulDiv(a.X, n, d), MulDiv(a.Y, n, d))
                   : a \in {u}, n \in {num}, d \in {den} } : TRUE

\* The largest component for which the sum of two squares stays in range.
SquareRange == 30 * 1000

\* u.Len(), in particle units.  A long vector is measured in units k times
\* coarser, with the relative precision of a short one.
VLenIn(ax, ay, k) == k * ISqrt((ax \div k) * (ax \div k) + (ay \div k) * (ay \div k))

VLen(u) ==
    CHOOSE r \in { VLenIn(a[1], a[2], (IF a[1] > a[2] THEN a[1] ELSE a[2]) \div SquareRange + 1)
                   : a \in { <<Abs(w.X), Abs(w.Y)>> : w \in {u} } } : TRUE

\* u.Unit(): a vector of length 1 (ONE units); (1, 0) for the zero vector.
VUnit(u) ==
    CHOOSE r \in { IF a.X = 0 /\ a.Y = 0 THEN V(ONE, 0)
                   ELSE VScaled(a, ONE, VLen(a)) : a \in {u} } : TRUE

\* u.Dot(v), in particle units
VDot(u, v) ==
    CHOOSE r \in { Div(a.X * b.X + a.Y * b.Y, ONE) : a \in {u}, b \in {v} } : TRUE

-----------------------------------------------------------------------------
(* VerletParticle (verlet.go).                                             *)

NewVerletParticle(position, mass, dt) ==
    [currentPosition    |-> position,
     previousPosition   |-> position,
     mass               |-> mass,
     currentForce       |-> ZV,
     currentImpulse     |-> ZV,
     recentVelocity     |-> ZV,
     recentAcceleration |-> ZV,
     dt                 |-> dt]

Position(p) == p.currentPosition

Velocity(p) == p.recentVelocity

Acceleration(p) == p.recentAcceleration

ApplyForce(p, force) ==
    [p EXCEPT !.currentForce = VAdd(p.currentForce, force)]

ApplyImpulse(p, impulse) ==
    [p EXCEPT !.currentImpulse = VAdd(p.currentImpulse, impulse)]

SlideToPosition(p, newPos) ==
    [p EXCEPT !.currentPosition = newPos]

SetVelocity(p, vel) ==
    [p EXCEPT !.previousPosition =
        VSub(p.currentPosition, VScaled(vel, p.dt, ONE))]

\* StepParticle without p.previousPosition = p.currentPosition.
StepParticleKeepsPrevious(p) ==
    LET totalForce == VAdd(p.currentForce, VScaled(p.currentImpulse, ONE, p.dt))
        acceleration == VScaled(totalForce, ONE, p.mass)
        nextPosition ==
            VAdd(VSub(VScaled(p.currentPosition, 2, 1), p.previousPosition),
                 VScaled(VScaled(acceleration, p.dt, ONE), p.dt, ONE))
    IN  [p EXCEPT
            !.recentAcceleration = acceleration,
            !.recentVelocity =
                VScaled(VSub(nextPosition, p.previousPosition), ONE, 2 * p.dt),
            !.currentPosition = nextPosition,
            !.currentForce = ZV,
            !.currentImpulse = ZV]

\* StepParticle without p.currentForce = pixel.ZV.
StepParticleKeepsForce(p) ==
    LET totalForce == VAdd(p.currentForce, VScaled(p.currentImpulse, ONE, p.dt))
        acceleration == VScaled(totalForce, ONE, p.mass)
        nextPosition ==
            VAdd(VSub(VScaled(p.currentPosition, 2, 1), p.previousPosition),
                 VScaled(VScaled(acceleration, p.dt, ONE), p.dt, ONE))
    IN  [p EXCEPT
            !.recentAcceleration = acceleration,
            !.recentVelocity =
                VScaled(VSub(nextPosition, p.previousPosition), ONE, 2 * p.dt),
            !.previousPosition = p.currentPosition,
            !.currentPosition = nextPosition,
            !.currentImpulse = ZV]

StepParticle(p) ==
    LET totalForce == VAdd(p.currentForce, VScaled(p.currentImpulse, ONE, p.dt))
        acceleration == VScaled(totalForce, ONE, p.mass)
        nextPosition ==
            VAdd(VSub(VScaled(p.currentPosition, 2, 1), p.previousPosition),
                 VScaled(VScaled(acceleration, p.dt, ONE), p.dt, ONE))
    IN  [p EXCEPT
            !.recentAcceleration = acceleration,
            !.recentVelocity =
                VScaled(VSub(nextPosition, p.previousPosition), ONE, 2 * p.dt),
            !.previousPosition = p.currentPosition,
            !.currentPosition = nextPosition,
            !.currentForce = ZV,
            !.currentImpulse = ZV]

-----------------------------------------------------------------------------
(* validateAction (env_cartpole.go): TRUE when the call panics.  The       *)
(* components of action are in units of `one`.                             *)

validateActionPanics(action, targetLength, one) ==
    \/ Len(action) # targetLength
    \/ \E i \in 1..Len(action) : action[i] < -one \/ action[i] > one

-----------------------------------------------------------------------------
(* BallPushEnv (env_ballpush.go).                                          *)

DefaultBallPushSettings ==
    [BallRadius          |-> 2 * ONE,
     AgentRadius         |-> 1 * ONE,
     AgentAcceleration   |-> 20 * ONE,
     AgentDrag           |-> (3 * ONE) \div 2,
     BallDrag            |-> (3 * ONE) \div 4,
     BoundaryRadius      |-> 50 * ONE,
     MoveToBallReward    |-> ONE \div 2,
     TouchBallReward     |-> 1 * ONE,
     MoveToCenterReward  |-> 1 * ONE,
     PlaceInCenterReward |-> 2 * ONE,
     TargetRadius        |-> 3 * ONE,
     DeltaTime           |-> ONE \div 60]

\* A caller-supplied BallPushSettings: a small arena and a long time step,
\* in which the boundary and the ball are a few steps away.
SmallBallPushSettings ==
    [DefaultBallPushSettings EXCEPT
        !.BoundaryRadius = 6 * ONE,
        !.DeltaTime      = ONE \div 4]

BallPushSettingsSet == {DefaultBallPushSettings, SmallBallPushSettings}

AgentMaxSpeed(s) == MulDiv(s.AgentAcceleration, ONE, s.AgentDrag)

BallInCenter(b) ==
    VLen(Position(b.Ball)) < b.Settings.TargetRadius - b.Settings.BallRadius

BallPushActionLength == 2

BallPushNumCategoricalActions == 5

\* ConvertCategoricalAction: the switch, and the panic that follows it.
BallPushConvertCategoricalAction(a) ==
    CASE a = 0 -> [panics |-> FALSE, action |-> <<ONE, 0>>]
      [] a = 1 -> [panics |-> FALSE, action |-> <<-ONE, 0>>]
      [] a = 2 -> [panics |-> FALSE, action |-> <<0, ONE>>]
      [] a = 3 -> [panics |-> FALSE, action |-> <<0, -ONE>>]
      [] a = 4 -> [panics |-> FALSE, action |-> <<0, 0>>]
      [] OTHER -> [panics |-> TRUE, action |-> << >>]

BallPushGetObservation(b) ==
    LET R == b.Settings.BoundaryRadius
        m == AgentMaxSpeed(b.Settings)
        d == VSub(Position(b.Ball), Position(b.Agent))
    IN  << MulDiv(Position(b.Agent).X, ONE, R),
           MulDiv(Position(b.Agent).Y, ONE, R),
           MulDiv(d.X, ONE, 2 * R),
           MulDiv(d.Y, ONE, 2 * R),
           MulDiv(Velocity(b.Agent).X, ONE, m),
           MulDiv(Velocity(b.Agent).Y, ONE, m),
           MulDiv(Velocity(b.Ball).X, ONE, m),
           MulDiv(Velocity(b.Ball).Y, ONE, m) >>

\* Whether pt is a point pixel.V(0, rand.Float64()*BoundaryRadius*0.75)
\* .Rotated(rand.Float64()*2*math.Pi) can be: one closer to the center than
\* 0.75*BoundaryRadius.
InResetDisc(s, pt) == 4 * VLen(pt) < 3 * s.BoundaryRadius

\* Reset that leaves the one-shot flags as they are.
BallPushResetKeepsFlags(b, agentPos, ballPos) ==
    [b EXCEPT
        !.Agent = SetVelocity(SlideToPosition(b.Agent, agentPos), ZV),
        !.Ball  = SetVelocity(SlideToPosition(b.Ball, ballPos), ZV)]

\* Reset with the two random points drawn as agentPos and ballPos.
BallPushResetState(b, agentPos, ballPos) ==
    [b EXCEPT
        !.Agent = SetVelocity(SlideToPosition(b.Agent, agentPos), ZV),
        !.Ball  = SetVelocity(SlideToPosition(b.Ball, ballPos), ZV),
        !.HasTouchedBall  = FALSE,
        !.HasCenteredBall = FALSE]

NewBallPushEnv(settings, agentPos, ballPos) ==
    BallPushResetState(
        [Agent           |-> NewVerletParticle(ZV, ONE, settings.DeltaTime),
         Ball            |-> NewVerletParticle(ZV, ONE, settings.DeltaTime),
         HasTouchedBall  |-> FALSE,
         HasCenteredBall |-> FALSE,
         Settings        |-> settings],
        agentPos, ballPos)

\* if ballOverlap > 0 { if !e.HasTouchedBall { justTouchedBall = true;
\* e.HasTouchedBall = true } ... }, with the flag forgotten.
TouchFlagsNeverSet(hasTouchedBall, ballOverlap) ==
    [justTouchedBall |-> ballOverlap > 0 /\ ~hasTouchedBall,
     HasTouchedBall  |-> hasTouchedBall]

\* if ballOverlap > 0 { if !e.HasTouchedBall { justTouchedBall = true;
\* e.HasTouchedBall = true } ... }
TouchFlags(hasTouchedBall, ballOverlap) ==
    [justTouchedBall |-> ballOverlap > 0 /\ ~hasTouchedBall,
     HasTouchedBall  |-> hasTouchedBall \/ ballOverlap > 0]

\* The control vector Step derives from a valid action.
ControlVec(action) ==
    LET controlVec == V(action[1], action[2])
    IN  IF VLen(controlVec) > 0 THEN VUnit(controlVec) ELSE controlVec

\* Step on a valid action: the environment after the call and what the call
\* computed on the way.
BallPushStepResult(e, action) ==
    LET s == e.Settings
        controlVec == ControlVec(action)
        agentControlForce == VScaled(controlVec, s.AgentAcceleration, ONE)
        agentDragForce == VScaled(Velocity(e.Agent), s.AgentDrag, ONE)
        ballDragForce == VScaled(Velocity(e.Ball), s.BallDrag, ONE)
        agent1 == ApplyForce(e.Agent, VSub(agentControlForce, agentDragForce))
        ball1 == ApplyForce(e.Ball, VScaled(ballDragForce, -1, 1))
        boundaryOverlap == VLen(Position(agent1)) + s.AgentRadius - s.BoundaryRadius
        agent2 ==
            IF boundaryOverlap > 0
            THEN SlideToPosition(agent1,
                    VScaled(VUnit(Position(agent1)),
                            s.BoundaryRadius - s.AgentRadius, ONE))
            ELSE agent1
        ballOverlap ==
            (s.AgentRadius + s.BallRadius)
                - VLen(VSub(Position(agent2), Position(ball1)))
        touch == TouchFlags(e.HasTouchedBall, ballOverlap)
        justTouchedBall == touch.justTouchedBall
        hasTouchedBall == touch.HasTouchedBall
        correctionVec ==
            VScaled(VUnit(VSub(Position(agent2), Position(ball1))), ballOverlap, 2 * ONE)
        agent3 ==
            IF ballOverlap > 0
            THEN SlideToPosition(agent2, VAdd(Position(agent2), correctionVec))
            ELSE agent2
        ball2 ==
            IF ballOverlap > 0
            THEN SlideToPosition(ball1, VSub(Position(ball1), correctionVec))
            ELSE ball1
        ballBoundaryOverlap == VLen(Position(ball2)) + s.BallRadius - s.BoundaryRadius
        ball3 ==
            IF ballBoundaryOverlap > 0
            THEN SlideToPosition(ball2,
                    VScaled(VUnit(Position(ball2)),
                            s.BoundaryRadius - s.BallRadius, ONE))
            ELSE ball2
        ballInCenter == BallInCenter([e EXCEPT !.Ball = ball3])
        justCenteredBall == ballInCenter /\ ~e.HasCenteredBall
        hasCenteredBall == e.HasCenteredBall \/ ballInCenter
        agent4 == StepParticle(agent3)
        ball4 == StepParticle(ball3)
        ballVelTowardsCenter ==
            VDot(Velocity(ball4), VScaled(VUnit(Position(ball4)), -1, 1))
        agentBallDir == VUnit(VSub(Position(ball4), Position(agent4)))
        agentVelTowardsBall == VDot(Velocity(agent4), agentBallDir)
        reward ==
            (IF justTouchedBall THEN s.TouchBallReward ELSE 0)
            + (IF justCenteredBall THEN s.PlaceInCenterReward ELSE 0)
            + Div(MulDiv(s.MoveToCenterReward, ballVelTowardsCenter, ONE) * s.DeltaTime,
                  s.BoundaryRadius)
            + (IF ~hasTouchedBall
               THEN Div(MulDiv(s.MoveToBallReward, agentVelTowardsBall, ONE) * s.DeltaTime,
                        2 * s.BoundaryRadius)
               ELSE 0)
        e1 == [e EXCEPT !.Agent = agent4, !.Ball = ball4,
                        !.HasTouchedBall = hasTouchedBall,
                        !.HasCenteredBall = hasCenteredBall]
    IN  [env               |-> e1,
         Observation       |-> BallPushGetObservation(e1),
         Reward            |-> reward,
         Terminated        |-> FALSE,
         agentControlForce |-> agentControlForce,
         agentDragForce    |-> agentDragForce,
         ballDragForce     |-> ballDragForce,
         ballOverlap       |-> ballOverlap > 0,
         ballInCenter      |-> ballInCenter,
         justTouchedBall   |-> justTouchedBall,
         justCenteredBall  |-> justCenteredBall]

-----------------------------------------------------------------------------
(* The state machine: one environment is constructed, then driven by       *)
(* Reset and Step calls.  A call that panics is recovered by the caller.   *)

\* The value of the variables of the environments that were not constructed.
Absent == [absent |-> TRUE]

NoCalls == [steps |-> 0, resets |-> 0, ops |-> 0]

\* The (agent, ball) placements Reset is explored with.
ResetPairs(s) ==
    { <<V(0, (2 * s.BoundaryRadius) \div 3), V(0, 0)>>,
      <<V((5 * ONE) \div 2, 0), V(0, 0)>> }

\* Valid BallPush actions.
BallPushActions ==
    { <<0, 0>>, <<0, ONE>>, <<-ONE, 0>>, <<ONE \div 2, 0>> }

\* BallPush actions validateAction rejects.
BallPushBadActions ==
    { <<0>>, <<0, 0, 0>>, <<0, ONE + 1>> }

NewEpisode(h) ==
    [steps          |-> 0,
     touchBonuses   |-> 0,
     centerBonuses  |-> 0,
     overlapSteps   |-> 0,
     centerSteps    |-> 0,
     touchedBefore  |-> h.touchedBefore \/ h.touchBonuses > 0,
     centeredBefore |-> h.centeredBefore \/ h.centerBonuses > 0,
     movedBefore    |-> h.movedBefore \/ h.steps > 0,
     idle           |-> h.idle]

FirstEpisode ==
    [steps |-> 0, touchBonuses |-> 0, centerBonuses |-> 0, overlapSteps |-> 0,
     centerSteps |-> 0, touchedBefore |-> FALSE, centeredBefore |-> FALSE,
     movedBefore |-> FALSE, idle |-> TRUE]

InitBallPush ==
    /\ env = "BallPush"
    /\ \E s \in BallPushSettingsSet : \E pr \in ResetPairs(s) :
        /\ InResetDisc(s, pr[1]) /\ InResetDisc(s, pr[2])
        /\ push = NewBallPushEnv(s, pr[1], pr[2])
    /\ cart = Absent /\ particle = Absent /\ walker = Absent
    /\ last = [op |-> "New", panicked |-> FALSE]
    /\ hist = FirstEpisode
    /\ calls = NoCalls

BallPushReset ==
    /\ env = "BallPush"
    /\ calls.resets < MaxResets
    /\ \E pr \in ResetPairs(push.Settings) :
        /\ InResetDisc(push.Settings, pr[1]) /\ InResetDisc(push.Settings, pr[2])
        /\ push' = BallPushResetState(push, pr[1], pr[2])
    /\ last' = [op |-> "Reset", panicked |-> FALSE,
                Observation |-> BallPushGetObservation(push')]
    /\ hist' = NewEpisode(hist)
    /\ calls' = [calls EXCEPT !.resets = @ + 1]
    /\ UNCHANGED <<env, cart, particle, walker>>

\* Step(action), for an action validateAction accepts.
BallPushStepOn(action) ==
    /\ env = "BallPush"
    /\ calls.steps < MaxSteps
    /\  /\ ~validateActionPanics(action, BallPushActionLength, ONE)
        /\ \E r \in {BallPushStepResult(push, action)} :
               /\ push' = r.env
               /\ last' = [op |-> "Step", panicked |-> FALSE, action |-> action,
                           Observation |-> r.Observation,
                           Reward |-> r.Reward,
                           Terminated |-> r.Terminated,
                           agentControlForce |-> r.agentControlForce,
                           agentDragForce |-> r.agentDragForce,
                           ballDragForce |-> r.ballDragForce,
                           justTouchedBall |-> r.justTouchedBall,
                           justCenteredBall |-> r.justCenteredBall]
               /\ hist' = [hist EXCEPT
                    !.steps = @ + 1,
                    !.touchBonuses = @ + (IF r.justTouchedBall THEN 1 ELSE 0),
                    !.centerBonuses = @ + (IF r.justCenteredBall THEN 1 ELSE 0),
                    !.overlapSteps = @ + (IF r.ballOverlap THEN 1 ELSE 0),
                    !.centerSteps = @ + (IF r.ballInCenter THEN 1 ELSE 0),
                    !.idle = @ /\ action = <<0, 0>>]
    /\ calls' = [calls EXCEPT !.steps = @ + 1]
    /\ UNCHANGED <<env, cart, particle, walker>>

BallPushStep == \E action \in BallPushActions : BallPushStepOn(action)

\* Step with validateAction called after the drag forces are applied.
BallPushPanicAfterDrag(e, action) ==
    [e EXCEPT
        !.Agent = ApplyForce(e.Agent,
                    VScaled(VScaled(Velocity(e.Agent), e.Settings.AgentDrag, ONE), -1, 1)),
        !.Ball  = ApplyForce(e.Ball,
                    VScaled(VScaled(Velocity(e.Ball), e.Settings.BallDrag, ONE), -1, 1))]

\* The environment a panicking Step leaves: validateAction is the first
\* statement of Step, nothing has run before it panics.
BallPushPanicState(e, action) == e

\* Step on an action validateAction rejects.
BallPushStepPanic ==
    /\ env = "BallPush"
    /\ \E action \in BallPushBadActions :
        /\ validateActionPanics(action, BallPushActionLength, ONE)
        /\ push' = BallPushPanicState(push, action)
        /\ last' = [op |-> "Step", panicked |-> TRUE, action |-> action,
                    before |-> push]
    /\ UNCHANGED <<env, cart, particle, walker, hist, calls>>

NextBallPush == BallPushReset \/ BallPushStep \/ BallPushStepPanic

SpecBallPush == InitBallPush /\ [][NextBallPush]_vars

-----------------------------------------------------------------------------
(* CartPoleEnv (env_cartpole.go), in cart-pole units.                      *)

\* math.Pi
PI == 22619

\* math.Sin on [0, Pi], by Bhaskara's rational approximation.
SinHalfTurn(x) ==
    LET y == (x * (PI - x)) \div CP
        d == 5 * ((PI * PI) \div CP) - 4 * y
    IN  (4 * y * CP) \div (d \div 4)

\* math.Sin
Sin(x) ==
    LET r == x % (2 * PI)
    IN  IF r <= PI THEN SinHalfTurn(r) ELSE -SinHalfTurn(r - PI)

\* math.Cos
Cos(x) == Sin(x + PI \div 2)

DefaultCartPoleSettings ==
    [Acceleration          |-> CP \div 2,
     MaxVelocity           |-> (3 * CP) \div 2,
     MaxRotationalVelocity |-> 3 * PI,
     GravityAcceleration   |-> (98 * CP) \div 10,
     TorqueMultiplier      |-> 4 * CP,
     TimeStep              |-> CP \div 60,
     MaxInitialAngle       |-> PI \div 8,
     MaxInitialOffset      |-> (8 * CP) \div 10,
     FailAngle             |-> PI \div 2,
     CenteredPerStepReward |-> 1 * CP,
     OutOfBoundsReward     |-> -1 * CP,
     PoleFallReward        |-> -5 * CP]

\* A caller-supplied CartPoleSettings: a strong motor, a long time step and
\* a low cap on the pole's speed, in which the caps and the failures are a
\* few steps away.
FastCartPoleSettings ==
    [DefaultCartPoleSettings EXCEPT
        !.Acceleration          = 4 * CP,
        !.MaxRotationalVelocity = PI,
        !.TimeStep              = CP \div 4]

CartPoleSettingsSet == {DefaultCartPoleSettings, FastCartPoleSettings}

NewCartPoleEnv(settings) ==
    [BoxPosition            |-> 0,
     BoxVelocity            |-> 0,
     PoleRotation           |-> 0,
     PoleRotationalVelocity |-> 0,
     Settings               |-> settings]

CartPoleActionLength == 1

CartPoleNumCategoricalActions == 3

\* ConvertCategoricalAction with the default case returning [0].
CartPoleConvertNoDefault(a) ==
    CASE a = 0 -> [panics |-> FALSE, action |-> <<0>>]
      [] a = 1 -> [panics |-> FALSE, action |-> <<CP>>]
      [] a = 2 -> [panics |-> FALSE, action |-> <<-CP>>]
      [] OTHER -> [panics |-> FALSE, action |-> <<0>>]

\* ConvertCategoricalAction: the switch with its panicking default.
CartPoleConvertCategoricalAction(a) ==
    CASE a = 0 -> [panics |-> FALSE, action |-> <<0>>]
      [] a = 1 -> [panics |-> FALSE, action |-> <<CP>>]
      [] a = 2 -> [panics |-> FALSE, action |-> <<-CP>>]
      [] OTHER -> [panics |-> TRUE, action |-> << >>]

\* One component of clampAll without its upper test.
Clamp1BelowOnly(v) == IF v < -CP THEN -CP ELSE v

\* One component of clampAll.
Clamp1(v) == IF v < -CP THEN -CP ELSE IF v > CP THEN CP ELSE v

clampAll(vals) == [i \in 1..Len(vals) |-> Clamp1(vals[i])]

CartPoleGetObservation(e) ==
    clampAll(<< e.BoxPosition,
                MulDiv(e.BoxVelocity, CP, e.Settings.MaxVelocity),
                Div(e.PoleRotation, 180),
                MulDiv(e.PoleRotationalVelocity, CP,
                       e.Settings.MaxRotationalVelocity) >>)

\* The cap without its lower branch.
CapVelocityAboveOnly(v, max) ==
    IF v > max THEN max ELSE v

\* The cap Step puts on a velocity: if v > max ... else if v < -max ...
CapVelocity(v, max) ==
    IF v > max THEN max ELSE IF v < -max THEN -max ELSE v

\* The physics update of Step (the cart, then the pole).  The capped
\* velocities are bound once and used for both the velocity and the position.
CartPoleUpdate(e, forceAction) ==
    LET s == e.Settings
        poleGravityAcceleration ==
            MulDiv(s.GravityAcceleration, Sin(e.PoleRotation), CP)
        poleTorque ==
            MulDiv(MulDiv(forceAction, Cos(e.PoleRotation), CP),
                   s.TorqueMultiplier, CP)
    IN  CHOOSE e1 \in
            { [e EXCEPT
                !.BoxVelocity = boxVelocity,
                !.BoxPosition = e.BoxPosition + MulDiv(boxVelocity, s.TimeStep, CP),
                !.PoleRotationalVelocity = poleRotationalVelocity,
                !.PoleRotation =
                    e.PoleRotation + MulDiv(poleRotationalVelocity, s.TimeStep, CP)] :
              boxVelocity \in
                { CapVelocity(
                    e.BoxVelocity
                        + MulDiv(MulDiv(forceAction, s.Acceleration, CP),
                                 s.TimeStep, CP),
                    s.MaxVelocity) },
              poleRotationalVelocity \in
                { CapVelocity(
                    e.PoleRotationalVelocity
                        + MulDiv(poleGravityAcceleration + poleTorque,
                                 s.TimeStep, CP),
                    s.MaxRotationalVelocity) } } : TRUE

\* The failure check with the pole tested before the cart.
CartPoleVerdictPoleFirst(e) ==
    LET s == e.Settings
    IN  IF e.PoleRotation > s.FailAngle \/ e.PoleRotation < -s.FailAngle
        THEN [failed |-> TRUE, reward |-> s.PoleFallReward]
        ELSE IF e.BoxPosition > CP \/ e.BoxPosition < -CP
        THEN [failed |-> TRUE, reward |-> s.OutOfBoundsReward]
        ELSE [failed |-> FALSE,
              reward |-> s.CenteredPerStepReward * 1 - Abs(e.BoxPosition)]

\* The failure check with && written for || in both range tests.
CartPoleVerdictAndForOr(e) ==
    LET s == e.Settings
    IN  IF e.BoxPosition > CP /\ e.BoxPosition < -CP
        THEN [failed |-> TRUE, reward |-> s.OutOfBoundsReward]
        ELSE IF e.PoleRotation > s.FailAngle /\ e.PoleRotation < -s.FailAngle
        THEN [failed |-> TRUE, reward |-> s.PoleFallReward]
        ELSE [failed |-> FALSE,
              reward |-> s.CenteredPerStepReward * 1 - Abs(e.BoxPosition)]

\* The failure check and the reward of Step, on the state after the update.
CartPoleVerdict(e) ==
    LET s == e.Settings
    IN  IF e.BoxPosition > CP \/ e.BoxPosition < -CP
        THEN [failed |-> TRUE, reward |-> s.OutOfBoundsReward]
        ELSE IF e.PoleRotation > s.FailAngle \/ e.PoleRotation < -s.FailAngle
        THEN [failed |-> TRUE, reward |-> s.PoleFallReward]
        ELSE [failed |-> FALSE,
              reward |-> s.CenteredPerStepReward * 1 - Abs(e.BoxPosition)]

\* What Step returns for the state e1 its update produced.
CartPoleStepData(e1) ==
    [env         |-> e1,
     Observation |-> CartPoleGetObservation(e1),
     Reward      |-> CartPoleVerdict(e1).reward,
     Terminated  |-> CartPoleVerdict(e1).failed]

\* Step on a valid action.
CartPoleStepResult(e, action) ==
    CHOOSE r \in
        { CartPoleStepData(e1) : e1 \in {CartPoleUpdate(e, action[1])} } : TRUE

\* Reset with the two random draws (rand.Float64()*2 - 1, in [-1, 1))
\* given as u and w.
CartPoleResetState(e, u, w) ==
    [e EXCEPT !.BoxPosition = MulDiv(u, e.Settings.MaxInitialOffset, CP),
              !.BoxVelocity = 0,
              !.PoleRotation = MulDiv(w, e.Settings.MaxInitialAngle, CP),
              !.PoleRotationalVelocity = 0]

\* The pairs of draws Reset is explored with.
CartPoleDraws ==
    { <<-CP, CP - 1>>, <<0, -CP>>, <<CP - 1, CP \div 2>> }

\* Valid CartPole actions.
CartPoleActions == { <<0>>, <<CP>>, <<-CP>> }

\* CartPole actions validateAction rejects.
CartPoleBadActions == { << >>, <<0, 0>>, <<CP + 1>> }

CartPoleFirstEpisode == [steps |-> 0, terminated |-> FALSE, resetAfterEnd |-> FALSE]

InitCartPole ==
    /\ env = "CartPole"
    /\ \E s \in CartPoleSettingsSet : cart = NewCartPoleEnv(s)
    /\ push = Absent /\ particle = Absent /\ walker = Absent
    /\ last = [op |-> "New", panicked |-> FALSE]
    /\ hist = CartPoleFirstEpisode
    /\ calls = NoCalls

CartPoleReset ==
    /\ env = "CartPole"
    /\ calls.resets < MaxResets
    /\ \E d \in CartPoleDraws :
        cart' = CartPoleResetState(cart, d[1], d[2])
    /\ last' = [op |-> "Reset", panicked |-> FALSE,
                Observation |-> CartPoleGetObservation(cart')]
    /\ hist' = [steps |-> 0, terminated |-> FALSE,
                resetAfterEnd |-> hist.terminated]
    /\ calls' = [calls EXCEPT !.resets = @ + 1]
    /\ UNCHANGED <<env, push, particle, walker>>

\* Step(action), for an action validateAction accepts.
CartPoleStepOn(action) ==
    /\ env = "CartPole"
    /\ calls.steps < MaxSteps
    /\  /\ ~validateActionPanics(action, CartPoleActionLength, CP)
        /\ \E r \in {CartPoleStepResult(cart, action)} :
            /\ cart' = r.env
            /\ last' = [op |-> "Step", panicked |-> FALSE, action |-> action,
                        Observation |-> r.Observation,
                        Reward |-> r.Reward,
                        Terminated |-> r.Terminated]
            /\ hist' = [hist EXCEPT !.steps = @ + 1,
                                    !.terminated = @ \/ r.Terminated]
    /\ calls' = [calls EXCEPT !.steps = @ + 1]
    /\ UNCHANGED <<env, push, particle, walker>>

CartPoleStep == \E action \in CartPoleActions : CartPoleStepOn(action)

\* The environment a panicking Step leaves: validateAction is the first
\* statement of Step, nothing has run before it panics.
CartPolePanicState(e, action) == e

CartPoleStepPanic ==
    /\ env = "CartPole"
    /\ \E action \in CartPoleBadActions :
        /\ validateActionPanics(action, CartPoleActionLength, CP)
        /\ cart' = CartPolePanicState(cart, action)
        /\ last' = [op |-> "Step", panicked |-> TRUE, action |-> action,
                    before |-> cart]
    /\ UNCHANGED <<env, push, particle, walker, hist, calls>>

NextCartPole == CartPoleReset \/ CartPoleStep \/ CartPoleStepPanic

SpecCartPole == InitCartPole /\ [][NextCartPole]_vars

-----------------------------------------------------------------------------
(* The cart-pole driven as in the termination scenario: default settings,  *)
(* one Reset, then Step with action [1] until a step reports Terminated.   *)

\* The draws the driven run's Reset is explored with.
DriveDraws ==
    { <<u, w>> : u \in {-CP, -(CP \div 2), 0, CP \div 2, CP - 1},
                 w \in {-CP, -(CP \div 2), 0, CP \div 2, CP - 1} }

InitDrive ==
    /\ env = "CartPole"
    /\ cart = NewCartPoleEnv(DefaultCartPoleSettings)
    /\ push = Absent /\ particle = Absent /\ walker = Absent
    /\ last = [op |-> "New", panicked |-> FALSE]
    /\ hist = CartPoleFirstEpisode
    /\ calls = NoCalls

DriveReset ==
    /\ last.op = "New"
    /\ \E d \in DriveDraws :
        cart' = CartPoleResetState(cart, d[1], d[2])
    /\ last' = [op |-> "Reset", panicked |-> FALSE,
                Observation |-> CartPoleGetObservation(cart')]
    /\ calls' = [calls EXCEPT !.resets = @ + 1]
    /\ UNCHANGED <<env, push, particle, walker, hist>>

DriveStep ==
    /\ last.op # "New"
    /\ ~hist.terminated
    /\ calls.steps < MaxDrive
    /\ ~validateActionPanics(<<CP>>, CartPoleActionLength, CP)
    /\ \E r \in {CartPoleStepResult(cart, <<CP>>)} :
        /\ cart' = r.env
        /\ last' = [op |-> "Step", panicked |-> FALSE, action |-> <<CP>>,
                    Observation |-> r.Observation,
                    Reward |-> r.Reward,
                    Terminated |-> r.Terminated]
        /\ hist' = [hist EXCEPT !.steps = @ + 1,
                                !.terminated = @ \/ r.Terminated]
    /\ calls' = [calls EXCEPT !.steps = @ + 1]
    /\ UNCHANGED <<env, push, particle, walker>>

NextDrive == DriveReset \/ DriveStep

\* The driver keeps calling: a call that can be made is made.
SpecDrive == InitDrive /\ [][NextDrive]_vars /\ WF_vars(NextDrive)

-----------------------------------------------------------------------------
(* WalkerEnv (env_walker.go).  The rigid-body engine is outside the        *)
(* program: of the walker, the model keeps what Step hands to the engine.  *)

WalkerActionLength == 4

\* settings.JointMaxVelocity of DefaultWalkerSettings
JointMaxVelocity == 5 * ONE

NewWalkerEnv ==
    [MotorSpeeds |-> <<0, 0, 0, 0>>, WorldSteps |-> 0, Teleports |-> 1]

\* ConvertCategoricalAction and NumCategoricalActions: panic("unimplemented").
WalkerConvertCategoricalAction(a) == [panics |-> TRUE, action |-> << >>]

WalkerNumCategoricalActionsPanics == TRUE

\* A reading the observation takes from the physics engine.
EngineValue == "box2d"

\* getObservation: four joint angles, four joint speeds, the sine and the
\* cosine of the body angle, all read from the engine.
WalkerObservationLength == 10

WalkerGetObservation(w) == [i \in 1..WalkerObservationLength |-> EngineValue]

\* Player.SetMotorSpeeds
SetMotorSpeeds(w, lHip, rHip, lKnee, rKnee) ==
    [w EXCEPT !.MotorSpeeds =
        << MulDiv(JointMaxVelocity, lHip, ONE),
           MulDiv(JointMaxVelocity, rHip, ONE),
           MulDiv(JointMaxVelocity, lKnee, ONE),
           MulDiv(JointMaxVelocity, rKnee, ONE) >>]

\* Step indexes action[0] .. action[3]: the call panics (index out of
\* range) exactly when the action is shorter than that.
WalkerStepPanics(action) == Len(action) < 4

\* Step on an action of four or more components.
WalkerStepState(w, action) ==
    [SetMotorSpeeds(w, action[1], action[2], action[3], action[4])
        EXCEPT !.WorldSteps = @ + 1]

\* The actions the walker is explored with: inside and outside the contract.
WalkerActions ==
    { <<0, 0, 0, 0>>, <<ONE, -ONE, ONE, -ONE>>, <<ONE \div 2, 0, 0, 0>>,
      <<0, 0, 0>>, << >>, <<0, 0, 0, 0, 0>>, <<2 * ONE, 0, 0, 0>>,
      <<0, 0, 0, -ONE - 1>> }

InitWalker ==
    /\ env = "Walker"
    /\ walker = NewWalkerEnv
    /\ cart = Absent /\ push = Absent /\ particle = Absent
    /\ last = [op |-> "New", panicked |-> FALSE]
    /\ hist = [steps |-> 0]
    /\ calls = NoCalls

WalkerReset ==
    /\ env = "Walker"
    /\ calls.resets < MaxResets
    /\ walker' = [walker EXCEPT !.Teleports = @ + 1]
    /\ last' = [op |-> "Reset", panicked |-> FALSE,
                Observation |-> WalkerGetObservation(walker')]
    /\ hist' = [steps |-> 0]
    /\ calls' = [calls EXCEPT !.resets = @ + 1]
    /\ UNCHANGED <<env, cart, push, particle>>

WalkerStep ==
    /\ env = "Walker"
    /\ calls.steps < MaxSteps
    /\ \E action \in WalkerActions :
        /\ ~WalkerStepPanics(action)
        /\ walker' = WalkerStepState(walker, action)
        /\ last' = [op |-> "Step", panicked |-> FALSE, action |-> action,
                    Observation |-> WalkerGetObservation(walker')]
    /\ hist' = [steps |-> hist.steps + 1]
    /\ calls' = [calls EXCEPT !.steps = @ + 1]
    /\ UNCHANGED <<env, cart, push, particle>>

WalkerStepPanic ==
    /\ env = "Walker"
    /\ \E action \in WalkerActions :
        /\ WalkerStepPanics(action)
        /\ last' = [op |-> "Step", panicked |-> TRUE, action |-> action]
    /\ UNCHANGED <<env, cart, push, particle, walker, hist, calls>>

NextWalker == WalkerReset \/ WalkerStep \/ WalkerStepPanic

SpecWalker == InitWalker /\ [][NextWalker]_vars

-----------------------------------------------------------------------------
(* A VerletParticle on its own, driven through its methods.                *)

ParticleVectors == { V(ONE, 0), V(0, -2 * ONE) }

InitParticle ==
    /\ env = "Particle"
    /\ \E pos \in {ZV, V(3 * ONE, ONE)} :
       \E mass \in {ONE, 2 * ONE} :
       \E dt \in {ONE \div 60, ONE \div 4} :
            particle = NewVerletParticle(pos, mass, dt)
    /\ cart = Absent /\ push = Absent /\ walker = Absent
    /\ last = [op |-> "New", panicked |-> FALSE]
    /\ hist = [steps |-> 0]
    /\ calls = NoCalls

ParticleApplyForce ==
    /\ env = "Particle" /\ calls.ops < MaxParticleOps
    /\ \E f \in ParticleVectors :
        /\ particle' = ApplyForce(particle, f)
        /\ last' = [op |-> "ApplyForce", panicked |-> FALSE, arg |-> f]
    /\ calls' = [calls EXCEPT !.ops = @ + 1]
    /\ UNCHANGED <<env, cart, push, walker, hist>>

ParticleApplyImpulse ==
    /\ env = "Particle" /\ calls.ops < MaxParticleOps
    /\ \E j \in ParticleVectors :
        /\ particle' = ApplyImpulse(particle, j)
        /\ last' = [op |-> "ApplyImpulse", panicked |-> FALSE, arg |-> j]
    /\ calls' = [calls EXCEPT !.ops = @ + 1]
    /\ UNCHANGED <<env, cart, push, walker, hist>>

ParticleSlideToPosition ==
    /\ env = "Particle" /\ calls.ops < MaxParticleOps
    /\ \E pos \in ParticleVectors :
        /\ particle' = SlideToPosition(particle, pos)
        /\ last' = [op |-> "SlideToPosition", panicked |-> FALSE, arg |-> pos]
    /\ calls' = [calls EXCEPT !.ops = @ + 1]
    /\ UNCHANGED <<env, cart, push, walker, hist>>

ParticleSetVelocity ==
    /\ env = "Particle" /\ calls.ops < MaxParticleOps
    /\ \E vel \in ParticleVectors \cup {ZV} :
        /\ particle' = SetVelocity(particle, vel)
        /\ last' = [op |-> "SetVelocity", panicked |-> FALSE, arg |-> vel]
    /\ calls' = [calls EXCEPT !.ops = @ + 1]
    /\ UNCHANGED <<env, cart, push, walker, hist>>

ParticleStep ==
    /\ env = "Particle" /\ calls.ops < MaxParticleOps
    /\ particle' = StepParticle(particle)
    /\ last' = [op |-> "StepParticle", panicked |-> FALSE,
                before |-> particle,
                prior  |-> IF last.op = "StepParticle"
                           THEN <<last.before>> ELSE << >>]
    /\ hist' = [steps |-> hist.steps + 1]
    /\ calls' = [calls EXCEPT !.ops = @ + 1]
    /\ UNCHANGED <<env, cart, push, walker>>

NextParticle ==
    \/ ParticleApplyForce \/ ParticleApplyImpulse \/ ParticleSlideToPosition
    \/ ParticleSetVelocity \/ ParticleStep

SpecParticle == InitParticle /\ [][NextParticle]_vars

-----------------------------------------------------------------------------
(* The program: any one of the environments, or a particle.                *)

Init == InitCartPole \/ InitBallPush \/ InitWalker \/ InitParticle

Next == NextCartPole \/ NextBallPush \/ NextWalker \/ NextParticle

Spec == Init /\ [][Next]_vars

-----------------------------------------------------------------------------
(* The environment contract, as the properties below read it.              *)

\* ActionLength() of the constructed environment.
ActionLength ==
    CASE env = "CartPole" -> CartPoleActionLength
      [] env = "BallPush" -> BallPushActionLength
      [] env = "Walker"   -> WalkerActionLength

\* The integer that stands for 1.0 in the constructed environment's actions.
ActionUnit == IF env = "CartPole" THEN CP ELSE ONE

IsEnv == env \in {"CartPole", "BallPush", "Walker"}

StepReturned == last.op = "Step" /\ ~last.panicked

\* ObservationLength() with the body of ActionLength().
ObservationLengthAsActionLength == ActionLength

\* ObservationLength() of the constructed environment:
\* len(e.getObservation()).
ObservationLength ==
    CASE env = "CartPole" -> Len(CartPoleGetObservation(cart))
      [] env = "BallPush" -> Len(BallPushGetObservation(push))
      [] env = "Walker"   -> Len(WalkerGetObservation(walker))

\* NumCategoricalActions() where it is implemented.
NumCategoricalActions ==
    CASE env = "CartPole" -> CartPoleNumCategoricalActions
      [] env = "BallPush" -> BallPushNumCategoricalActions

\* ConvertCategoricalAction(a) of the constructed environment.
ConvertCategoricalAction(a) ==
    CASE env = "CartPole" -> CartPoleConvertCategoricalAction(a)
      [] env = "BallPush" -> BallPushConvertCategoricalAction(a)
      [] env = "Walker"   -> WalkerConvertCategoricalAction(a)

-----------------------------------------------------------------------------
(* An environment driven through the whole Env interface: the queries, and *)
(* Step on the actions ConvertCategoricalAction returns.                   *)

\* The indices ConvertCategoricalAction is called with.
CategoricalIndices == -1 .. 5

InitInterface ==
    \/ InitCartPole
    \/ InitBallPush /\ push.Settings = DefaultBallPushSettings
    \/ InitWalker

\* e.ConvertCategoricalAction(a)
ConvertCall ==
    /\ IsEnv
    /\ \E a \in CategoricalIndices :
        \E r \in {ConvertCategoricalAction(a)} :
            last' = [op |-> "ConvertCategoricalAction", index |-> a,
                     panicked |-> r.panics, action |-> r.action]
    /\ UNCHANGED <<env, cart, push, particle, walker, hist, calls>>

\* e.NumCategoricalActions()
NumCategoricalActionsCall ==
    /\ IsEnv
    /\ last' = IF env = "Walker"
               THEN [op |-> "NumCategoricalActions",
                     panicked |-> WalkerNumCategoricalActionsPanics]
               ELSE [op |-> "NumCategoricalActions", panicked |-> FALSE,
                     value |-> NumCategoricalActions]
    /\ UNCHANGED <<env, cart, push, particle, walker, hist, calls>>

\* e.ActionLength()
ActionLengthCall ==
    /\ IsEnv
    /\ last' = [op |-> "ActionLength", panicked |-> FALSE, value |-> ActionLength]
    /\ UNCHANGED <<env, cart, push, particle, walker, hist, calls>>

\* e.ObservationLength(): getObservation only reads the environment.
ObservationLengthCall ==
    /\ IsEnv
    /\ last' = [op |-> "ObservationLength", panicked |-> FALSE,
                value |-> ObservationLength,
                before |-> <<cart, push, walker>>]
    /\ UNCHANGED <<env, cart, push, particle, walker, hist, calls>>

\* e.Step(e.ConvertCategoricalAction(a)), the conversion having returned.
StepConverted ==
    /\ last.op = "ConvertCategoricalAction" /\ ~last.panicked
    /\ \/ CartPoleStepOn(last.action)
       \/ BallPushStepOn(last.action)

NextInterface ==
    \/ CartPoleReset \/ BallPushReset \/ WalkerReset
    \/ WalkerStep \/ StepConverted
    \/ ConvertCall \/ NumCategoricalActionsCall
    \/ ActionLengthCall \/ ObservationLengthCall

SpecInterface == InitInterface /\ [][NextInterface]_vars

\* What the containment property allows for rounding: 1/60 of a length unit.
Tolerance == ONE \div 60

-----------------------------------------------------------------------------
(* Properties.                                                             *)

\* C1: in every environment, Step fails (panics) exactly when the action's
\* length differs from ActionLength() or a component lies outside [-1, 1];
\* in particular an all-zero action and components of +1 or -1 succeed.
C1_StepFailsExactlyOnInvalidAction ==
    (IsEnv /\ last.op = "Step") =>
        (last.panicked <=> validateActionPanics(last.action, ActionLength, ActionUnit))

\* The same for the two environments that call validateAction.
C1_ValidatingEnvironments ==
    (env \in {"CartPole", "BallPush"} /\ last.op = "Step") =>
        (last.panicked <=> validateActionPanics(last.action, ActionLength, ActionUnit))

\* C2: in BallPush, after every Step the agent is no farther from the center
\* than BoundaryRadius - AgentRadius and the ball no farther than
\* BoundaryRadius - BallRadius.
C2_Containment ==
    (env = "BallPush" /\ StepReturned) =>
        /\ VLen(Position(push.Agent))
              <= push.Settings.BoundaryRadius - push.Settings.AgentRadius + Tolerance
        /\ VLen(Position(push.Ball))
              <= push.Settings.BoundaryRadius - push.Settings.BallRadius + Tolerance

\* C3: in BallPush, within one episode (between two Resets) at most one Step
\* has TouchBallReward added to its reward and at most one Step has
\* PlaceInCenterReward added, however many steps see the overlap or the ball
\* in the center.
C3_OneShotBonuses ==
    env = "BallPush" => (hist.touchBonuses <= 1 /\ hist.centerBonuses <= 1)

\* An episode in which the overlap and the centered ball were each seen on
\* two steps or more, and each bonus was granted once.
C3_Witness ==
    /\ env = "BallPush"
    /\ hist.overlapSteps >= 2 /\ hist.touchBonuses = 1
    /\ hist.centerSteps >= 2 /\ hist.centerBonuses = 1

\* C4: after SetVelocity(v), Velocity() read before any StepParticle
\* returns v.
C4_SetVelocityRoundTrip ==
    (env = "Particle" /\ last.op = "SetVelocity") =>
        Velocity(particle) = last.arg

\* C5: in BallPush, after Reset the velocity of the agent and of the ball is
\* zero: Velocity() of both, the velocity components of the observation
\* Reset returns, and the drag forces of the first Step that follows.
C5_ResetZeroesVelocities ==
    /\ (env = "BallPush" /\ last.op = "Reset") =>
            /\ Velocity(push.Agent) = ZV
            /\ Velocity(push.Ball) = ZV
            /\ \A i \in 5..8 : last.Observation[i] = 0
    /\ (env = "BallPush" /\ StepReturned /\ hist.steps = 1) =>
            /\ last.agentDragForce = ZV
            /\ last.ballDragForce = ZV

\* C6: Reset can be called in every state (before any Step, in the middle
\* of an episode, after a terminated Step) and succeeds; in BallPush both
\* one-shot flags are false right after it.
C6_ResetAnyTime ==
    /\ (IsEnv /\ calls.resets < MaxResets) =>
            ENABLED (CartPoleReset \/ BallPushReset \/ WalkerReset)
    /\ (IsEnv /\ last.op = "Reset") => ~last.panicked
    /\ (env = "BallPush" /\ last.op = "Reset") =>
            (~push.HasTouchedBall /\ ~push.HasCenteredBall)

\* A BallPush episode that follows a Reset made after moving, in which the
\* touch bonus and the center bonus, granted before the Reset, are granted
\* again.
C6_Witness ==
    /\ env = "BallPush"
    /\ hist.movedBefore /\ hist.touchedBefore /\ hist.centeredBefore
    /\ hist.touchBonuses = 1 /\ hist.centerBonuses = 1

\* C7: in CartPole, after every call the cart's speed is at most
\* MaxVelocity and the pole's rotational speed at most
\* MaxRotationalVelocity.
C7_VelocitiesBounded ==
    env = "CartPole" =>
        /\ Abs(cart.BoxVelocity) <= cart.Settings.MaxVelocity
        /\ Abs(cart.PoleRotationalVelocity) <= cart.Settings.MaxRotationalVelocity

\* A Step that left the cart at -MaxVelocity and the pole at
\* -MaxRotationalVelocity: both lower caps were applied.
C7_Witness ==
    /\ env = "CartPole" /\ StepReturned
    /\ cart.BoxVelocity = -cart.Settings.MaxVelocity
    /\ cart.PoleRotationalVelocity = -cart.Settings.MaxRotationalVelocity

\* C8: with the default settings, from any state Reset produces, calling
\* Step with action [1] again and again eventually returns Terminated =
\* true, with a reward that is OutOfBoundsReward or PoleFallReward (both
\* negative).
C8_DriveTerminates ==
    <>( /\ StepReturned
        /\ last.Terminated
        /\ last.Reward \in {cart.Settings.OutOfBoundsReward,
                            cart.Settings.PoleFallReward}
        /\ last.Reward < 0 )

\* A driven run that ended after more than one Step.
C8_Witness ==
    /\ env = "CartPole" /\ StepReturned
    /\ last.action = <<CP>> /\ last.Terminated /\ calls.steps > 1

\* C9: the result of a CartPole Step follows from the state after the
\* update, in this order: cart outside [-1, 1]: Terminated, reward
\* OutOfBoundsReward (also when the pole is beyond FailAngle); else pole
\* outside [-FailAngle, FailAngle]: Terminated, reward PoleFallReward; else
\* not Terminated, reward CenteredPerStepReward - |cart position|.
C9_VerdictPriority ==
    (env = "CartPole" /\ StepReturned) =>
        IF Abs(cart.BoxPosition) > CP
        THEN last.Terminated /\ last.Reward = cart.Settings.OutOfBoundsReward
        ELSE IF Abs(cart.PoleRotation) > cart.Settings.FailAngle
        THEN last.Terminated /\ last.Reward = cart.Settings.PoleFallReward
        ELSE /\ ~last.Terminated
             /\ last.Reward =
                    cart.Settings.CenteredPerStepReward - Abs(cart.BoxPosition)

\* A Step after which the cart is out of bounds and the pole has fallen.
C9_Witness ==
    /\ env = "CartPole" /\ StepReturned
    /\ Abs(cart.BoxPosition) > CP
    /\ Abs(cart.PoleRotation) > cart.Settings.FailAngle
    /\ last.Reward = cart.Settings.OutOfBoundsReward

\* C10: in a BallPush Step an action of magnitude at most 1 is used as
\* given: the control force on the agent is action x AgentAcceleration.
C10_ShortActionUsedUnchanged ==
    (env = "BallPush" /\ StepReturned
        /\ VLen(V(last.action[1], last.action[2])) <= ONE) =>
        last.agentControlForce =
            VScaled(V(last.action[1], last.action[2]),
                    push.Settings.AgentAcceleration, ONE)

\* C12: on CartPole (3 actions) and BallPush (5 actions),
\* ConvertCategoricalAction(i) fails exactly for the indices outside
\* 0 .. NumCategoricalActions()-1 and otherwise returns a vector of length
\* ActionLength() with every component in [-1, 1], which Step's validation
\* accepts; on Walker both NumCategoricalActions and
\* ConvertCategoricalAction fail on every call.
C12_CategoricalActions ==
    /\ env = "CartPole" => NumCategoricalActions = 3
    /\ env = "BallPush" => NumCategoricalActions = 5
    /\ (env \in {"CartPole", "BallPush"} /\ last.op = "NumCategoricalActions") =>
            ~last.panicked /\ last.value = NumCategoricalActions
    /\ (env \in {"CartPole", "BallPush"} /\ last.op = "ConvertCategoricalAction") =>
            /\ last.panicked <=> last.index \notin 0 .. (NumCategoricalActions - 1)
            /\ ~last.panicked =>
                    /\ Len(last.action) = ActionLength
                    /\ \A i \in 1..Len(last.action) :
                            -ActionUnit <= last.action[i] /\ last.action[i] <= ActionUnit
                    /\ ~validateActionPanics(last.action, ActionLength, ActionUnit)
    /\ (env = "Walker"
            /\ last.op \in {"NumCategoricalActions", "ConvertCategoricalAction"}) =>
            last.panicked

\* A BallPush Step that returned on the action ConvertCategoricalAction(3)
\* gave.
C12_Witness ==
    /\ env = "BallPush" /\ StepReturned
    /\ last.action = BallPushConvertCategoricalAction(3).action
    /\ last.action = <<0, -ONE>>

\* C13: in a BallPush with the default settings on which every Step so far
\* had action (0, 0), every observation Reset and Step return has its 8
\* components within [-1, 1], whatever placement the Reset drew (agent and
\* ball overlapping included).
C13_RestObservationInRange ==
    (env = "BallPush" /\ push.Settings = DefaultBallPushSettings /\ hist.idle
        /\ last.op \in {"Reset", "Step"} /\ ~last.panicked) =>
        /\ Len(last.Observation) = 8
        /\ \A i \in 1..8 : -ONE <= last.Observation[i] /\ last.Observation[i] <= ONE

\* C14: every observation CartPole's Reset and Step return has 4
\* components within [-1, 1]: the clamp of BoxPosition,
\* BoxVelocity/MaxVelocity, PoleRotation/180 and
\* PoleRotationalVelocity/MaxRotationalVelocity of the state the call left.
C14_CartPoleObservation ==
    (env = "CartPole" /\ last.op \in {"Reset", "Step"} /\ ~last.panicked) =>
        /\ Len(last.Observation) = 4
        /\ \A i \in 1..4 : -CP <= last.Observation[i] /\ last.Observation[i] <= CP
        /\ \A i \in 1..4 :
            \E raw \in { << cart.BoxPosition,
                             MulDiv(cart.BoxVelocity, CP, cart.Settings.MaxVelocity),
                             Div(cart.PoleRotation, 180),
                             MulDiv(cart.PoleRotationalVelocity, CP,
                                    cart.Settings.MaxRotationalVelocity) >>[i] } :
                last.Observation[i] =
                    IF raw < -CP THEN -CP ELSE IF raw > CP THEN CP ELSE raw

\* A Step that returned with the cart beyond +1 and at MaxVelocity: the
\* observation holds the clamped position.
C14_Witness ==
    /\ env = "CartPole" /\ StepReturned
    /\ cart.BoxPosition > CP /\ last.Observation[1] = CP
    /\ last.Observation[2] = CP

\* ObservationLength() of the environment as its constructor leaves it.
ObservationLengthWhenNew ==
    CASE env = "CartPole" ->
            Len(CartPoleGetObservation(NewCartPoleEnv(cart.Settings)))
      [] env = "BallPush" ->
            Len(BallPushGetObservation(NewBallPushEnv(push.Settings, ZV, ZV)))
      [] env = "Walker" ->
            Len(WalkerGetObservation(NewWalkerEnv))

\* C15: ActionLength() and ObservationLength() keep their values over every
\* call, ObservationLength() is the length of every observation Reset and
\* Step return, and a call of ObservationLength() leaves the environment as
\* it was.
C15_ShapeStable ==
    IsEnv =>
        /\ ObservationLength = ObservationLengthWhenNew
        /\ (last.op \in {"Reset", "Step"} /\ ~last.panicked) =>
                Len(last.Observation) = ObservationLength
        /\ last.op = "ObservationLength" =>
                /\ last.value = ObservationLengthWhenNew
                /\ <<cart, push, walker>> = last.before
        /\ last.op = "ActionLength" => last.value = ActionLength

\* ObservationLength() called on a BallPush that was stepped and reset.
C15_Witness ==
    /\ env = "BallPush" /\ last.op = "ObservationLength"
    /\ calls.steps >= 1 /\ calls.resets >= 1
    /\ last.value = 8

\* A particle on which no force and no impulse is waiting.
NoForce(p) == p.currentForce = ZV /\ p.currentImpulse = ZV

\* The call before the last StepParticle was a StepParticle too.
SteppedTwice ==
    env = "Particle" /\ last.op = "StepParticle" /\ last.prior # << >>

\* C11: a StepParticle of a particle with no force and no impulse moves the
\* position by velocity x dt, and consecutive such calls yield the same
\* Velocity() and the same displacement, whatever the starting pair of
\* positions.
C11_ZeroForceConstantVelocity ==
    (env = "Particle" /\ last.op = "StepParticle" /\ NoForce(last.before)) =>
        /\ VScaled(Velocity(particle), particle.dt, ONE)
                = VSub(Position(particle), Position(last.before))
        /\ (SteppedTwice /\ NoForce(last.prior[1])) =>
                /\ Velocity(particle) = Velocity(last.before)
                /\ VSub(Position(particle), Position(last.before))
                        = VSub(Position(last.before), Position(last.prior[1]))

\* Two consecutive force-free StepParticle calls of a moving particle.
C11_Witness ==
    /\ SteppedTwice
    /\ NoForce(last.before) /\ NoForce(last.prior[1])
    /\ Velocity(particle) # ZV
    /\ Position(last.prior[1]) # last.prior[1].previousPosition

\* C16: StepParticle leaves the accumulated force and impulse at zero, so a
\* StepParticle that directly follows another one computes acceleration
\* zero, whatever was applied before the first.
C16_ForcesClearedByStep ==
    (env = "Particle" /\ last.op = "StepParticle") =>
        /\ NoForce(particle)
        /\ SteppedTwice => Acceleration(particle) = ZV

\* A StepParticle with acceleration zero that follows a StepParticle which
\* had a force or an impulse to integrate.
C16_Witness ==
    /\ SteppedTwice
    /\ ~NoForce(last.prior[1])
    /\ Acceleration(last.before) # ZV
    /\ Acceleration(particle) = ZV

\* C17: in CartPole and BallPush a Step that fails validation leaves the
\* environment as it was (positions, velocities, accumulated forces and
\* one-shot flags), so that a valid Step after it, which is computed from
\* that state and its action alone, returns what it would have returned
\* without the failed call.
C17_FailedStepChangesNothing ==
    /\ (env = "BallPush" /\ last.op = "Step" /\ last.panicked) =>
            push = last.before
    /\ (env = "CartPole" /\ last.op = "Step" /\ last.panicked) =>
            cart = last.before

\* A failed Step on a BallPush in mid-episode: the ball has been touched
\* and agent and ball are moving.
C17_Witness ==
    /\ env = "BallPush" /\ last.op = "Step" /\ last.panicked
    /\ hist.steps >= 1 /\ push.HasTouchedBall
    /\ Velocity(push.Agent) # ZV /\ Velocity(push.Ball) # ZV

====
